---- MODULE Spec2Model ----
(***************************************************************************)
(* Aetherium Automata engine: the type-locked Variable, the declaration    *)
(* parser, the two-pass Automata loader, the structural validator, the    *)
(* command line entry point and the execution-state step contract.        *)
(***************************************************************************)
EXTENDS Integers, Sequences, FiniteSets, TLC

VARIABLES
    v,          \* the Variable under test            (automata.hpp:37-92)
    hist,       \* the last operation applied to v, with v before it
    lock,       \* the alternative of the value of the first successful set, or NoLock
    doc,        \* the parsed document tree handed to the Loader
    heap,       \* the Automata objects alive, by object id
    lpc,        \* position of the code that constructs an Automata
    argv,       \* the command line options, in order
    file,       \* the document stored at the path named on the command line
    flags,      \* the static fields of ArgParser       (argparser.hpp:15-26)
    pc,         \* position in main
    validated,  \* how the call of AutomataValidator::validate ended
    exitStatus, \* the status the process ended with
    out,        \* what the process printed, in order
    au,         \* the loaded Automata an Execution State runs against
    exec,       \* the AutomataState cursor             (automata_state.hpp:16-22)
    step        \* what the last execution step evaluated and fired

varsVar  == <<v, hist, lock>>
varsLoad == <<doc, heap, lpc>>
varsCli  == <<argv, file, flags, pc, validated, exitStatus, out>>
varsExec == <<au, exec, step>>
vars     == <<varsVar, varsLoad, varsCli, varsExec>>

----------------------------------------------------------------------------
(* enum VariableType, automata.hpp:19-25 *)
BOOL    == 0
INT     == 1
STRING_  == 2
VOID    == 3
NOT_SET == 4

(* Strings are sequences of one-character strings, so that find and substr *)
(* are computed position by position.                                      *)
Colon    == ":"
EmptyStr == << >>
S_int    == <<"i", "n", "t">>
S_bool   == <<"b", "o", "o", "l">>
S_string == <<"s", "t", "r", "i", "n", "g">>

(* std::variant<bool, int, std::string, Void>, automata.hpp:39.  index is  *)
(* the position of the alternative held; the fields of the alternatives    *)
(* not held stay at a fixed filler.                                        *)
VBool(x) == [index |-> 0, b |-> x,     i |-> 0, s |-> EmptyStr]
VInt(x)  == [index |-> 1, b |-> FALSE, i |-> x, s |-> EmptyStr]
VStr(x)  == [index |-> 2, b |-> FALSE, i |-> 0, s |-> x]
VVoid    == [index |-> 3, b |-> FALSE, i |-> 0, s |-> EmptyStr]

(* Bounds on the values fed to a Variable *)
MaxInt == 1
IntValues  == 0 .. MaxInt
StrValues  == {EmptyStr, <<"a">>}
ArgValues  == {VBool(x) : x \in BOOLEAN} \cup {VInt(x) : x \in IntValues}
                \cup {VStr(x) : x \in StrValues} \cup {VVoid}

(* Variable(), Variable(Void), Variable(bool), Variable(int),              *)
(* Variable(std::string): automata.hpp:41-46                               *)
NewVariable      == [name |-> EmptyStr, data_ |-> VVoid, type_ |-> NOT_SET]
ValueVariable(x) == [name |-> EmptyStr, data_ |-> x, type_ |-> x.index]

(* Variable::type(), automata.hpp:50-52: the index of the alternative held *)
(* by data_, cast to VariableType.                                         *)
TypeOf(var) == var.data_.index

(* Variable::get<T>() / is<T>(), automata.hpp:54-61; the value with index  *)
(* -1 stands for the bad_variant_access std::get throws                    *)
Is(var, idx)  == var.data_.index = idx
Get(var, idx) == IF Is(var, idx) THEN var.data_ ELSE [index |-> -1, b |-> FALSE, i |-> 0, s |-> EmptyStr]

(* The template argument T of Variable::set<T>(T&&).  Called with an       *)
(* rvalue, T is the value type; called with an lvalue, T is deduced as a   *)
(* reference type, which is none of the four types set compares with.      *)
ExactT == {"bool", "int", "std::string", "Void"}
RefT   == {"bool&", "int&", "std::string&", "Void&"}
TemplateArgs == ExactT \cup RefT

(* The alternative an argument of type T is stored as by data_ = v *)
AltOf(T) == CASE T \in {"bool", "bool&"}               -> 0
              [] T \in {"int", "int&"}                 -> 1
              [] T \in {"std::string", "std::string&"} -> 2
              [] OTHER                                 -> 3

(* the if constexpr chain of Variable::set, automata.hpp:65-77 *)
ExpectedType(T) == CASE T = "bool"        -> BOOL
                     [] T = "int"         -> INT
                     [] T = "std::string" -> STRING_
                     [] T = "Void"        -> VOID
                     [] OTHER             -> NOT_SET

(* the guard of the throw in Variable::set, automata.hpp:79 *)
SetThrows(var, T) == ExpectedType(T) # var.type_ /\ var.type_ # NOT_SET

(* Variable::set, automata.hpp:63-84: the Variable after the call *)
SetResult(var, T, x) ==
    IF SetThrows(var, T) THEN var
    ELSE [var EXCEPT !.data_ = x, !.type_ = ExpectedType(T)]

(* std::string::npos, the value find returns when nothing matches *)
Npos == 0 - 1

(* std::string::find(':'), automata_parser.cpp:11: the 0-based position of *)
(* the first ':' of s, or npos                                             *)
Find(s) ==
    IF \E k \in 1 .. Len(s) : s[k] = Colon
    THEN (CHOOSE k \in 1 .. Len(s) :
              s[k] = Colon /\ \A j \in 1 .. (k - 1) : s[j] # Colon) - 1
    ELSE Npos

(* std::string::substr(pos, n) and substr(pos), 0-based *)
Substr(s, pos, n) == SubSeq(s, pos + 1, pos + n)
SubstrFrom(s, pos) == SubSeq(s, pos + 1, Len(s))

(* DeclaredSet with a final else that falls back to std::string *)
DeclaredSet_DefaultString(var_type) ==
    CASE var_type = S_int    -> <<"int", VInt(0)>>
      [] var_type = S_bool   -> <<"bool", VBool(FALSE)>>
      [] OTHER               -> <<"std::string", VStr(EmptyStr)>>

(* the set call Variable::parse makes for a type token,                    *)
(* automata_parser.cpp:18-24: <<T, value>>, or <<>> when it makes none     *)
DeclaredSet(var_type) ==
    CASE var_type = S_int    -> <<"int", VInt(0)>>
      [] var_type = S_bool   -> <<"bool", VBool(FALSE)>>
      [] var_type = S_string -> <<"std::string", VStr(EmptyStr)>>
      [] OTHER               -> << >>

(* the set call Variable::parse makes for the whole scalar s,              *)
(* automata_parser.cpp:11-28                                               *)
ParseSet(s) ==
    IF Find(s) # Npos THEN DeclaredSet(SubstrFrom(s, Find(s) + 1))
    ELSE <<"std::string", VStr(EmptyStr)>>

(* ParseName with substr(0, pos + 1), which keeps the ':' *)
ParseName_KeepsColon(s) == IF Find(s) # Npos THEN Substr(s, 0, Find(s) + 1) ELSE s

(* the name Variable::parse assigns, automata_parser.cpp:13-15 and 26 *)
ParseName(s) == IF Find(s) # Npos THEN Substr(s, 0, Find(s)) ELSE s

(* Variable::parse, automata_parser.cpp:7-30: the Variable it leaves in    *)
(* *this (and returns a copy of); the name is assigned before set is       *)
(* called, so it is kept when set throws.                                  *)
ParseResult(var, s) ==
    LET named == [var EXCEPT !.name = ParseName(s)]
        call  == ParseSet(s)
    IN  IF call = << >> THEN named ELSE SetResult(named, call[1], call[2])

ParseThrows(var, s) ==
    LET call == ParseSet(s) IN call # << >> /\ SetThrows(var, call[1])

----------------------------------------------------------------------------
(* The declaration scalars fed to Variable::parse *)
Decl(n, t) == n \o <<Colon>> \o t
DeclNames == {<<"x">>, <<"f", "l">>, EmptyStr}
KnownTypeToks   == {S_int, S_bool, S_string}
UnknownTypeToks == {<<"f", "l", "o", "a", "t">>, <<"I", "n", "t">>, EmptyStr,
                    <<"i", "n", "t", " ">>, <<"b", Colon, "i", "n", "t">>}
DeclTokens == {Decl(n, t) : n \in DeclNames, t \in KnownTypeToks \cup UnknownTypeToks}
                \cup DeclNames

NoLock == 0 - 1
NoValue == [index |-> Npos, b |-> FALSE, i |-> 0, s |-> EmptyStr]
NoHist == [op |-> "none", T |-> "", arg |-> NoValue, tok |-> EmptyStr,
           outcome |-> "ok", prev |-> NewVariable, lockBefore |-> NoLock,
           prevOp |-> "none", prevTok |-> EmptyStr]

(* The other components at rest *)
NoDoc == [cfgType |-> "", states |-> << >>, transitions |-> << >>]
IdleVar  == v = NewVariable /\ hist = NoHist /\ lock = NoLock
IdleLoad == doc = NoDoc /\ heap = << >> /\ lpc = "idle"
IdleCli  == /\ argv = << >> /\ file = NoDoc /\ flags = << >> /\ pc = "idle"
            /\ validated = "none" /\ exitStatus = 0 /\ out = << >>
IdleExec == au = << >> /\ exec = << >> /\ step = << >>

----------------------------------------------------------------------------
(* The Variable on its own: construction, set<T> and parse *)

InitVar == /\ v = NewVariable /\ hist = NoHist /\ lock = NoLock
           /\ IdleLoad /\ IdleCli /\ IdleExec

(* Variable v;  automata.hpp:41 *)
ConstructDefault ==
    /\ v' = NewVariable
    /\ lock' = NoLock
    /\ hist' = [NoHist EXCEPT !.op = "construct", !.prev = v, !.lockBefore = lock,
                         !.prevOp = hist.op, !.prevTok = hist.tok]
    /\ UNCHANGED <<varsLoad, varsCli, varsExec>>

(* Variable v(x);  automata.hpp:42-46 *)
ConstructValue ==
    \E x \in ArgValues :
        /\ v' = ValueVariable(x)
        /\ lock' = NoLock
        /\ hist' = [NoHist EXCEPT !.op = "construct", !.arg = x, !.prev = v,
                                  !.lockBefore = lock, !.prevOp = hist.op,
                                  !.prevTok = hist.tok]
        /\ UNCHANGED <<varsLoad, varsCli, varsExec>>

(* v.set<T>(x);  automata.hpp:63-84 *)
Set ==
    \E T \in TemplateArgs, x \in ArgValues :
        /\ x.index = AltOf(T)
        /\ v' = SetResult(v, T, x)
        /\ lock' = IF ~SetThrows(v, T) /\ lock = NoLock THEN x.index ELSE lock
        /\ hist' = [NoHist EXCEPT !.op = "set", !.T = T, !.arg = x, !.prev = v,
                        !.lockBefore = lock, !.prevOp = hist.op, !.prevTok = hist.tok,
                        !.outcome = IF SetThrows(v, T) THEN "type mismatch" ELSE "ok"]
        /\ UNCHANGED <<varsLoad, varsCli, varsExec>>

(* Variable v; v.parse(node);  automata_parser.cpp:67-80 with 7-30 *)
Parse ==
    \E tok \in DeclTokens :
        /\ v' = ParseResult(NewVariable, tok)
        /\ lock' = IF ParseSet(tok) = << >> THEN NoLock ELSE ParseSet(tok)[2].index
        /\ hist' = [NoHist EXCEPT !.op = "parse", !.tok = tok, !.prev = v,
                        !.lockBefore = lock, !.prevOp = hist.op, !.prevTok = hist.tok,
                        !.outcome = IF ParseThrows(NewVariable, tok)
                                    THEN "type mismatch" ELSE "ok"]
        /\ UNCHANGED <<varsLoad, varsCli, varsExec>>

NextVar == ConstructDefault \/ ConstructValue \/ Set \/ Parse
SpecVar == InitVar /\ [][NextVar]_vars

----------------------------------------------------------------------------
(* Properties of the Variable *)

UnknownDecl(tok) == \E n \in DeclNames, t \in UnknownTypeToks : tok = Decl(n, t)

(* C1: the first successful set locks the Variable to the type of its      *)
(* argument; a later set of a value of another type fails with "type       *)
(* mismatch" and leaves the Variable as it was; a later set of a value of  *)
(* the locked type succeeds and replaces the value.                        *)
C1_TypeLock ==
    hist.op = "set" =>
        /\ (hist.lockBefore = NoLock /\ hist.outcome = "ok") =>
                v.data_ = hist.arg /\ TypeOf(v) = hist.arg.index
        /\ (hist.lockBefore # NoLock /\ hist.arg.index # hist.lockBefore) =>
                /\ hist.outcome = "type mismatch"
                /\ v = hist.prev
                /\ Get(v, hist.lockBefore) = hist.prev.data_
        /\ (hist.lockBefore # NoLock /\ hist.arg.index = hist.lockBefore) =>
                hist.outcome = "ok" /\ v.data_ = hist.arg

(* C6: parse of name:int, name:bool, name:string and of a bare name gives  *)
(* a Variable called name, locked to the declared type (std::string for a  *)
(* bare name) and holding 0, false or "".                                  *)
C6_ParseDeclared ==
    hist.op = "parse" =>
        \A n \in DeclNames :
            /\ hist.tok = Decl(n, S_int) =>
                 /\ hist.outcome = "ok" /\ v.name = n
                 /\ v.type_ = INT /\ TypeOf(v) = INT /\ v.data_ = VInt(0)
            /\ hist.tok = Decl(n, S_bool) =>
                 /\ hist.outcome = "ok" /\ v.name = n
                 /\ v.type_ = BOOL /\ TypeOf(v) = BOOL /\ v.data_ = VBool(FALSE)
            /\ hist.tok = Decl(n, S_string) =>
                 /\ hist.outcome = "ok" /\ v.name = n
                 /\ v.type_ = STRING_ /\ TypeOf(v) = STRING_ /\ v.data_ = VStr(EmptyStr)
            /\ hist.tok = n =>
                 /\ hist.outcome = "ok" /\ v.name = n
                 /\ v.type_ = STRING_ /\ TypeOf(v) = STRING_ /\ v.data_ = VStr(EmptyStr)

C6_Witness ==
    /\ hist.op = "parse" /\ hist.tok = Decl(<<"f", "l">>, S_int)
    /\ v.name = <<"f", "l">> /\ v.type_ = INT

(* C7 as stated: parse of name:tok with tok none of int, bool, string      *)
(* gives a Variable called name locked to std::string and holding "", on   *)
(* which a later set of an int or a bool fails.                            *)
C7_UnknownTypeIsString ==
    /\ (hist.op = "parse" /\ UnknownDecl(hist.tok)) =>
            /\ hist.outcome = "ok"
            /\ v.type_ = STRING_ /\ v.data_ = VStr(EmptyStr)
    /\ (hist.op = "set" /\ hist.prevOp = "parse" /\ UnknownDecl(hist.prevTok)
            /\ hist.T \in {"int", "bool"}) =>
            hist.outcome = "type mismatch"

(* C7 amended: parse of name:tok with tok none of int, bool, string is     *)
(* accepted and gives a Variable called by the text before the first ':'   *)
(* that has no locked type and holds Void; a set<int> or set<bool> made    *)
(* next on it succeeds and locks the type.                                 *)
C7_UnknownTypeIsUnlocked ==
    /\ (hist.op = "parse" /\ UnknownDecl(hist.tok)) =>
            /\ hist.outcome = "ok"
            /\ \A n \in DeclNames, t \in UnknownTypeToks :
                   hist.tok = Decl(n, t) => v.name = n
            /\ v.type_ = NOT_SET /\ v.data_ = VVoid
    /\ (hist.op = "set" /\ hist.prevOp = "parse" /\ UnknownDecl(hist.prevTok)
            /\ hist.T \in {"int", "bool"}) =>
            /\ hist.outcome = "ok"
            /\ v.type_ = ExpectedType(hist.T) /\ v.data_ = hist.arg

C7_Witness ==
    /\ hist.op = "set" /\ hist.T = "int" /\ hist.prevOp = "parse"
    /\ hist.prevTok = Decl(<<"x">>, <<"f", "l", "o", "a", "t">>)
    /\ v.type_ = INT /\ v.name = <<"x">>

(* C8: type() reports the lock: NOT_SET while no set has succeeded, and    *)
(* otherwise the tag that set compares against.                            *)
C8_TypeReportsLock == TypeOf(v) = v.type_

----------------------------------------------------------------------------
(* The Loader: Automata::Automata(path) and Automata::parse                *)

(* Bounds on the documents *)
MaxStates == 2
MaxTrans  == 1

StateKeys == {"", "idle", "active"}
RefNames  == StateKeys \cup {"nowhere"}
Location  == "/defs"

SeqsUpTo(S, n) == UNION {[1 .. k -> S] : k \in 0 .. n}

(* The documents the Loader is run on: a mapping with version, config and  *)
(* automata.  cfgType is config.type, or "nomap" when config is not a      *)
(* mapping; automataIsMap tells whether automata is a mapping (with its    *)
(* states and transitions sections).  The children of states are the keys  *)
(* in document order; a mapping may repeat a key and may have an empty     *)
(* key.  A transition carries its from and to scalars.                     *)
LoaderDocs ==
    [cfgType : {"inline", "folder", "bogus", "nomap"},
     automataIsMap : BOOLEAN,
     states : SeqsUpTo(StateKeys, MaxStates),
     transitions : SeqsUpTo([from : RefNames, to : RefNames], MaxTrans)]

(* A State* : the address of element idx of the states vector of the       *)
(* Automata object obj, or an address that is no element of any vector.    *)
Wild == [obj |-> 0, idx |-> 0]
Ptr(o, k) == [obj |-> o, idx |-> k]
(* The values an uninitialised State* may hold *)
Indeterminate == {Wild} \cup {Ptr(1, k) : k \in 1 .. MaxStates}

Dead == [alive |-> FALSE, states |-> << >>, transitions |-> << >>,
         type |-> "FOLDER", rootPath |-> ""]

(* State::parse, automata_parser.cpp:58-88: the key becomes the name *)
StateParse(key) == [name |-> key]

(* the lookup loop of Automata::parse, automata_parser.cpp:172-179: every  *)
(* state is visited and each match overwrites the pointer, so the last     *)
(* match stays; with no match the pointer keeps the value it had.          *)
Resolve(self, states, nm, init) ==
    IF \E k \in 1 .. Len(states) : states[k].name = nm
    THEN Ptr(self, CHOOSE k \in 1 .. Len(states) :
                 states[k].name = nm /\ \A j \in (k + 1) .. Len(states) : states[j].name # nm)
    ELSE init

(* the throw of Automata::parse, automata_parser.cpp:138-150 *)
ParseThrowsUnknownType(d) == d.cfgType \notin {"inline", "folder", "nomap"}

(* Automata::parse, automata_parser.cpp:129-185, run on the object self    *)
(* built by Automata::Automata (type = FOLDER, automata_parser.cpp:125).   *)
(* junk[i] holds the values that from and to of the i-th Transition t have *)
(* when t is default-constructed (automata_parser.cpp:162).                *)
AutomataParse(self, d, junk) ==
    LET sts == IF d.automataIsMap
               THEN [k \in 1 .. Len(d.states) |-> StateParse(d.states[k])]
               ELSE << >>
        trs == IF d.automataIsMap
               THEN [k \in 1 .. Len(d.transitions) |->
                        [from |-> Resolve(self, sts, d.transitions[k].from, junk[k].from),
                         to   |-> Resolve(self, sts, d.transitions[k].to, junk[k].to)]]
               ELSE << >>
    IN  [alive |-> TRUE, states |-> sts, transitions |-> trs,
         type |-> IF d.cfgType = "inline" THEN "INLINE" ELSE "FOLDER",
         rootPath |-> IF d.cfgType = "folder" THEN Location ELSE ""]

(* the copy constructor of Automata (implicit, automata.hpp:130-144): the  *)
(* vectors are copied element by element, so the copy owns new State       *)
(* elements while the State* of the copied transitions keep their values.  *)
CopyAutomata(a) ==
    [alive |-> a.alive,
     states |-> [k \in 1 .. Len(a.states) |-> [name |-> a.states[k].name]],
     transitions |-> [k \in 1 .. Len(a.transitions) |->
                         [from |-> a.transitions[k].from, to |-> a.transitions[k].to]],
     type |-> a.type, rootPath |-> a.rootPath]

(* the element a State* refers to, when it refers to one *)
PointsAtState(h, p) ==
    /\ p.obj \in DOMAIN h /\ h[p.obj].alive
    /\ p.idx \in 1 .. Len(h[p.obj].states)
Deref(h, p) == h[p.obj].states[p.idx]

InitLoad ==
    /\ doc \in LoaderDocs
    /\ heap = <<Dead, Dead>>
    /\ lpc = "start"
    /\ IdleVar /\ IdleCli /\ IdleExec

(* const Automata automata(path), up to the return of the parse call made  *)
(* by the constructor (automata_parser.cpp:114-127, main.cpp:23): object 1 *)
(* is the Automata under construction, object 2 the value parse returns.   *)
LoadConstruct ==
    /\ lpc = "start"
    /\ \E junk \in [1 .. Len(doc.transitions) -> [from : Indeterminate, to : Indeterminate]] :
         IF ParseThrowsUnknownType(doc)
         THEN /\ heap' = <<Dead, Dead>>
              /\ lpc' = "thrown"
         ELSE /\ heap' = <<AutomataParse(1, doc, junk), CopyAutomata(AutomataParse(1, doc, junk))>>
              /\ lpc' = "returned"
    /\ UNCHANGED <<doc, varsVar, varsCli, varsExec>>

(* the value returned by parse is discarded (automata_parser.cpp:126) *)
LoadDiscardReturn ==
    /\ lpc = "returned"
    /\ heap' = [heap EXCEPT ![2] = Dead]
    /\ lpc' = "constructed"
    /\ UNCHANGED <<doc, varsVar, varsCli, varsExec>>

(* automata goes out of scope (main.cpp:25) *)
LoadDestroy ==
    /\ lpc = "constructed"
    /\ heap' = [heap EXCEPT ![1] = Dead]
    /\ lpc' = "destroyed"
    /\ UNCHANGED <<doc, varsVar, varsCli, varsExec>>

NextLoad == LoadConstruct \/ LoadDiscardReturn \/ LoadDestroy
SpecLoad == InitLoad /\ [][NextLoad]_vars

(* Properties of the Loader *)
Loaded == lpc \in {"returned", "constructed"}
StateNamesOf(d) == IF d.automataIsMap THEN {d.states[k] : k \in 1 .. Len(d.states)} ELSE {}
HasUnresolved(d) ==
    /\ d.automataIsMap
    /\ \E k \in 1 .. Len(d.transitions) :
          \/ d.transitions[k].from \notin StateNamesOf(d)
          \/ d.transitions[k].to \notin StateNamesOf(d)

(* C2: a document with a transition whose from or to names no parsed state *)
(* makes the load fail, and no Automata comes out of it.                   *)
C2_UnresolvedFails ==
    (lpc # "start" /\ HasUnresolved(doc)) =>
        /\ lpc = "thrown"
        /\ \A o \in DOMAIN heap : ~heap[o].alive

(* C3: after a successful load every transition of every live Automata     *)
(* (the constructed one and the one parse returned) has from and to        *)
(* referring to elements of that Automata's own states, named as the       *)
(* document says.                                                          *)
C3_RefsIntoOwnStates ==
    (Loaded /\ ~HasUnresolved(doc)) =>
        \A o \in DOMAIN heap : heap[o].alive =>
            \A k \in 1 .. Len(heap[o].transitions) :
                LET t == heap[o].transitions[k] IN
                /\ t.from.obj = o /\ PointsAtState(heap, t.from)
                /\ Deref(heap, t.from).name = doc.transitions[k].from
                /\ t.to.obj = o /\ PointsAtState(heap, t.to)
                /\ Deref(heap, t.to).name = doc.transitions[k].to

(* C9: in a loaded Automata every state name is non-empty and no two       *)
(* states have the same name.                                              *)
C9_NamesUnique ==
    Loaded =>
        LET sts == heap[1].states IN
        /\ \A k \in 1 .. Len(sts) : sts[k].name # ""
        /\ \A j, k \in 1 .. Len(sts) : sts[j].name = sts[k].name => j = k

----------------------------------------------------------------------------
(* The command line: ArgParser::parse, AutomataValidator::validate, main   *)

(* Bound on the number of options on a command line *)
MaxArgs == 2

ExistingPath == "a.yaml"
MissingPath  == "gone.yaml"
Paths == {ExistingPath, MissingPath}

(* The options of a command line, as getopt_long hands them over.          *)
(* "unknown" is an option getopt_long does not recognise, or one that      *)
(* lacks its required argument.                                            *)
Options ==
    [name : {"help", "version", "debug", "verbose", "unknown"}, arg : {""}]
      \cup [name : {"run", "config", "validate"}, arg : Paths]
      \cup [name : {"mode"}, arg : {"network", "detached", "turbo"}]

(* what getopt_long returns for an option, argparser.cpp:5-18: a long      *)
(* option with a flag pointer stores val in the flag and returns 0         *)
GetoptLong(o) ==
    CASE o.name = "help"     -> "h"
      [] o.name = "version"  -> "v"
      [] o.name = "run"      -> "r"
      [] o.name = "mode"     -> "m"
      [] o.name = "config"   -> "c"
      [] o.name = "validate" -> "1"
      [] o.name \in {"debug", "verbose"} -> "0"
      [] OTHER               -> "?"

(* std::filesystem::exists *)
Exists(path) == path = ExistingPath

(* The static fields of ArgParser at program start, argparser.hpp:15-26 *)
InitFlags ==
    [helpFlag |-> FALSE, versionFlag |-> FALSE, verboseFlag |-> FALSE,
     debugFlag |-> FALSE, validateAutomataFlag |-> FALSE, runFlag |-> FALSE,
     configProvidedFlag |-> FALSE, automataFile |-> "", configFile |-> "",
     mode |-> "detached"]

(* The while loop of ArgParser::parse from option k on,                    *)
(* argparser.cpp:21-79, and the code after it, argparser.cpp:81-84.  dbg   *)
(* and vrb are the locals debug_flag and verbose_flag.                     *)
RECURSIVE ArgLoop(_, _, _, _, _, _)
ArgLoop(args, k, fl, o, dbg, vrb) ==
    IF k > Len(args)
    THEN [ok |-> TRUE, flags |-> [fl EXCEPT !.debugFlag = dbg, !.verboseFlag = vrb],
          out |-> o]
    ELSE
      LET a == args[k]
          opt == GetoptLong(a)
          dbg2 == dbg \/ a.name = "debug"
          vrb2 == vrb \/ a.name = "verbose"
          fail(o2) == [ok |-> FALSE, flags |-> fl, out |-> o2]
      IN CASE opt = "h" ->
                ArgLoop(args, k + 1, [fl EXCEPT !.helpFlag = TRUE],
                        Append(o, "usage"), dbg2, vrb2)
           [] opt = "v" ->
                ArgLoop(args, k + 1, [fl EXCEPT !.versionFlag = TRUE],
                        Append(o, "version"), dbg2, vrb2)
           [] opt = "r" ->
                IF ~Exists(a.arg)
                THEN fail(o \o <<"File not found", "usage">>)
                ELSE ArgLoop(args, k + 1,
                             [fl EXCEPT !.automataFile = a.arg, !.runFlag = TRUE],
                             o, dbg2, vrb2)
           [] opt = "m" ->
                IF a.arg = "network"
                THEN ArgLoop(args, k + 1, [fl EXCEPT !.mode = "network"], o, dbg2, vrb2)
                ELSE IF a.arg = "detached"
                THEN ArgLoop(args, k + 1, [fl EXCEPT !.mode = "detached"], o, dbg2, vrb2)
                ELSE fail(Append(o, "usage"))
           [] opt = "c" ->
                IF ~Exists(a.arg)
                THEN fail(o \o <<"File not found", "usage">>)
                ELSE ArgLoop(args, k + 1,
                             [fl EXCEPT !.configFile = a.arg, !.configProvidedFlag = TRUE],
                             o, dbg2, vrb2)
           [] opt = "1" ->
                IF ~Exists(a.arg)
                THEN fail(o \o <<"File not found", "usage">>)
                ELSE ArgLoop(args, k + 1,
                             [fl EXCEPT !.automataFile = a.arg,
                                        !.validateAutomataFlag = TRUE],
                             o, dbg2, vrb2)
           [] OTHER -> fail(Append(o, "usage"))

(* ArgParser::parse, argparser.cpp:4-85 *)
ArgParserParse(args) == ArgLoop(args, 1, InitFlags, << >>, FALSE, FALSE)

(* The documents stored at ExistingPath.  root tells how the text parses:  *)
(* not at all, to a sequence, or to a mapping with the top-level keys      *)
(* keys; the other fields are the contents the Loader reads.               *)
TopKeys == {"config", "automata", "version"}
CliContents ==
    {[cfgType |-> "folder", automataIsMap |-> TRUE, states |-> <<"idle", "active">>,
      transitions |-> <<[from |-> "idle", to |-> "active"]>>],
     [cfgType |-> "bogus", automataIsMap |-> TRUE, states |-> <<"idle", "active">>,
      transitions |-> <<[from |-> "idle", to |-> "active"]>>],
     [cfgType |-> "inline", automataIsMap |-> TRUE, states |-> <<"idle">>,
      transitions |-> <<[from |-> "nowhere", to |-> "idle"]>>],
     [cfgType |-> "nomap", automataIsMap |-> FALSE, states |-> << >>,
      transitions |-> << >>]}
CliDocs ==
    {[root |-> r, keys |-> ks, cfgType |-> c.cfgType, automataIsMap |-> c.automataIsMap,
      states |-> c.states, transitions |-> c.transitions] :
        r \in {"unparseable", "seq", "map"}, ks \in SUBSET TopKeys, c \in CliContents}

(* the process status after return -1 from main, and after abort() *)
ExitMinusOne == 255
ExitAbort    == 134

(* AutomataValidator::validate, automata_validator.cpp:6-24: how the call  *)
(* ends.  parse_in_arena on text that does not parse, and a RYML_CHECK     *)
(* whose condition is false, call the error handler of the library, which  *)
(* does not return to validate; the only return statement is return true.  *)
Validate(f) ==
    IF f.root = "map" /\ TopKeys \subseteq f.keys THEN "true" ELSE "error"

(* The Loader is run on text that does not parse (the error handler of the *)
(* library) or on a mapping that has the three sections it reads.          *)
Loadable(f) == f.root = "unparseable" \/ (f.root = "map" /\ f.keys = TopKeys)
RunsFile(args) ==
    \E k \in 1 .. Len(args) : args[k].name = "run" /\ args[k].arg = ExistingPath

InitCli ==
    /\ argv \in SeqsUpTo(Options, MaxArgs)
    /\ file \in CliDocs
    /\ RunsFile(argv) => Loadable(file)
    /\ flags = InitFlags
    /\ pc = "start"
    /\ validated = "none"
    /\ exitStatus = 0
    /\ out = << >>
    /\ heap = <<Dead, Dead>>
    /\ doc = NoDoc /\ lpc = "idle"
    /\ IdleVar /\ IdleExec

(* main.cpp:7-9 *)
MainParseArgs ==
    /\ pc = "start"
    /\ LET r == ArgParserParse(argv) IN
         /\ flags' = r.flags
         /\ out' = r.out
         /\ pc' = IF r.ok THEN "parsed" ELSE "exited"
         /\ exitStatus' = IF r.ok THEN exitStatus ELSE ExitMinusOne
    /\ UNCHANGED <<argv, file, validated, varsVar, varsLoad, varsExec>>

(* main.cpp:11-19 *)
MainValidate ==
    /\ pc = "parsed"
    /\ flags.automataFile # ""
    /\ flags.validateAutomataFlag
    /\ validated' = Validate(file)
    /\ pc' = "exited"
    /\ CASE Validate(file) = "true" ->
              out' = Append(out, "Automata is valid.") /\ exitStatus' = 0
         [] Validate(file) = "false" ->
              out' = Append(out, "Automata is invalid.") /\ exitStatus' = 0
         [] OTHER ->
              out' = Append(out, "ryml error") /\ exitStatus' = ExitAbort
    /\ UNCHANGED <<argv, file, flags, varsVar, varsLoad, varsExec>>

(* main.cpp:21-23: Engine engine; const Automata automata(file).  Text     *)
(* that does not parse ends in the error handler of the library; the       *)
(* runtime_error thrown by Automata::parse is caught nowhere.              *)
MainLoad ==
    /\ pc = "parsed"
    /\ flags.automataFile # ""
    /\ ~flags.validateAutomataFlag
    /\ flags.runFlag
    /\ \E junk \in [1 .. Len(file.transitions) -> [from : Indeterminate, to : Indeterminate]] :
         CASE file.root = "unparseable" ->
                /\ out' = Append(out, "ryml error")
                /\ exitStatus' = ExitAbort /\ pc' = "exited"
                /\ heap' = heap
           [] file.root # "unparseable" /\ ParseThrowsUnknownType(file) ->
                /\ out' = Append(out, "terminate called after throwing")
                /\ exitStatus' = ExitAbort /\ pc' = "exited"
                /\ heap' = heap
           [] OTHER ->
                /\ heap' = [heap EXCEPT ![1] = AutomataParse(1, file, junk)]
                /\ pc' = "running"
                /\ UNCHANGED <<out, exitStatus>>
    /\ UNCHANGED <<argv, file, flags, validated, doc, lpc, varsVar, varsExec>>

(* main.cpp:24-28: engine.run(automata) returns, automata is destroyed and *)
(* main returns 0                                                          *)
MainRunReturns ==
    /\ pc = "running"
    /\ heap' = [heap EXCEPT ![1] = Dead]
    /\ pc' = "exited"
    /\ exitStatus' = 0
    /\ UNCHANGED <<argv, file, flags, validated, out, doc, lpc, varsVar, varsExec>>

(* main.cpp:11 and 28: no automata file was named *)
MainNothingToDo ==
    /\ pc = "parsed"
    /\ flags.automataFile = ""
    /\ pc' = "exited"
    /\ exitStatus' = 0
    /\ UNCHANGED <<argv, file, flags, validated, out, varsVar, varsLoad, varsExec>>

NextCli == MainParseArgs \/ MainValidate \/ MainLoad \/ MainRunReturns \/ MainNothingToDo
SpecCli == InitCli /\ [][NextCli]_vars

(* Properties of the command line *)
DocValid(f) == f.root = "map" /\ TopKeys \subseteq f.keys

(* C4: validate returns true exactly for a document whose root is a        *)
(* mapping with config, automata and version, and returns false to main    *)
(* for every other document.                                               *)
C4_ValidateReturnsBool ==
    validated # "none" =>
        /\ DocValid(file) => validated = "true"
        /\ ~DocValid(file) =>
              /\ validated = "false"
              /\ out # << >> /\ out[Len(out)] = "Automata is invalid."

LoadShouldFail(f) == f.root = "unparseable" \/ ParseThrowsUnknownType(f) \/ HasUnresolved(f)
SelectedValidate == flags.automataFile # "" /\ flags.validateAutomataFlag
SelectedRun == flags.automataFile # "" /\ ~flags.validateAutomataFlag /\ flags.runFlag
CliFailure ==
    \/ ~ArgParserParse(argv).ok
    \/ ArgParserParse(argv).ok /\ SelectedValidate /\ ~DocValid(file)
    \/ ArgParserParse(argv).ok /\ SelectedRun /\ LoadShouldFail(file)

(* C5: when argument parsing, validation or loading fails the process ends *)
(* with a non-zero status and has printed a diagnostic; status 0 is only   *)
(* produced when nothing failed.                                           *)
C5_FailureIsReported ==
    pc = "exited" =>
        /\ CliFailure => (exitStatus # 0 /\ out # << >>)
        /\ exitStatus = 0 => ~CliFailure

----------------------------------------------------------------------------
(* The Execution State and one step of the driving loop (spec 4.6); the    *)
(* AutomataState cursor is automata_state.hpp:9-22                         *)

(* Bounds on the automata that are run *)
MaxExecStates == 2
MaxExecTrans  == 2
ExecNames == <<"idle", "active", "done", "error">>
ExecKeys == {ExecNames[k] : k \in 1 .. MaxExecStates}

(* Documents that load with every reference bound and unique state names:  *)
(* the states are the first n of ExecNames, in that order                  *)
ExecDocs ==
    {d \in [cfgType : {"inline"}, automataIsMap : {TRUE},
            states : {SubSeq(ExecNames, 1, n) : n \in 1 .. MaxExecStates},
            transitions : SeqsUpTo([from : ExecKeys, to : ExecKeys], MaxExecTrans)] :
        ~HasUnresolved(d)}

NoStep == [kind |-> "none", before |-> Wild, guards |-> << >>, failed |-> FALSE,
           sel |-> 0, fired |-> << >>]

(* the answers of the external evaluator; in a step the guard of a         *)
(* transition that does not leave the current state is not evaluated and   *)
(* is recorded as "false"                                                  *)
GuardAnswers == {"true", "false", "error"}
HookFailures == {"none", "on_exit", "triggered", "on_enter"}

Hook(h, p) == [hook |-> h, at |-> p]

(* Scan that keeps looking after a true guard, so the last match is taken *)
RECURSIVE Scan_LastMatch(_, _, _, _)
Scan_LastMatch(trs, cur, guards, k) ==
    IF k > Len(trs) THEN [sel |-> 0, failed |-> FALSE]
    ELSE IF trs[k].from # cur THEN Scan_LastMatch(trs, cur, guards, k + 1)
    ELSE IF guards[k] = "error" THEN [sel |-> 0, failed |-> TRUE]
    ELSE LET rest == Scan_LastMatch(trs, cur, guards, k + 1) IN
         IF guards[k] = "true" /\ rest.sel = 0 /\ ~rest.failed
         THEN [sel |-> k, failed |-> FALSE]
         ELSE rest

(* step 3: the guards of the transitions leaving cur are evaluated in      *)
(* document order from transition k on, up to the first that is true; an   *)
(* evaluation that fails ends the step                                     *)
RECURSIVE Scan(_, _, _, _)
Scan(trs, cur, guards, k) ==
    IF k > Len(trs) THEN [sel |-> 0, failed |-> FALSE]
    ELSE IF trs[k].from # cur THEN Scan(trs, cur, guards, k + 1)
    ELSE IF guards[k] = "error" THEN [sel |-> 0, failed |-> TRUE]
    ELSE IF guards[k] = "true" THEN [sel |-> k, failed |-> FALSE]
    ELSE Scan(trs, cur, guards, k + 1)

(* step 4 and step 1 of the next visit: the hooks evaluated when           *)
(* transition t is taken from cur, up to the one that fails                *)
HooksFired(cur, k, to, hookFail) ==
    CASE hookFail = "on_exit"   -> <<Hook("on_exit", cur)>>
      [] hookFail = "triggered" -> <<Hook("on_exit", cur), Hook("triggered", Ptr(0, k))>>
      [] OTHER -> <<Hook("on_exit", cur), Hook("triggered", Ptr(0, k)), Hook("on_enter", to)>>

HasOutgoing(trs, cur) == \E k \in 1 .. Len(trs) : trs[k].from = cur

InitExec ==
    /\ \E d \in ExecDocs : au = AutomataParse(1, d, [k \in 1 .. Len(d.transitions) |->
                                                      [from |-> Wild, to |-> Wild]])
    /\ exec = [currentState |-> "INITIATING", current |-> Wild]
    /\ step = NoStep
    /\ IdleVar /\ IdleLoad /\ IdleCli

(* INITIATING -> RUNNING: the first state in document order is entered *)
ExecStart ==
    /\ exec.currentState = "INITIATING"
    /\ \E ok \in BOOLEAN :
         IF ok
         THEN /\ exec' = [currentState |-> "RUNNING", current |-> Ptr(1, 1)]
              /\ step' = [NoStep EXCEPT !.kind = "start", !.before = exec.current,
                                        !.fired = <<Hook("on_enter", Ptr(1, 1))>>]
         ELSE /\ exec' = exec
              /\ step' = [NoStep EXCEPT !.kind = "start", !.before = exec.current,
                                        !.failed = TRUE,
                                        !.fired = <<Hook("on_enter", Ptr(1, 1))>>]
    /\ UNCHANGED <<au, varsVar, varsLoad, varsCli>>

(* one execution step while RUNNING (steps 3 to 5) *)
ExecStep ==
    /\ exec.currentState = "RUNNING"
    /\ \E guards \in [1 .. Len(au.transitions) -> GuardAnswers], hookFail \in HookFailures :
         /\ \A k \in 1 .. Len(au.transitions) :
                au.transitions[k].from # exec.current => guards[k] = "false"
         /\ LET cur == exec.current
                r   == Scan(au.transitions, cur, guards, 1)
                info == [NoStep EXCEPT !.kind = "step", !.before = cur, !.guards = guards]
            IN
             IF r.failed
             THEN /\ exec' = exec
                  /\ step' = [info EXCEPT !.failed = TRUE]
             ELSE IF r.sel = 0
             THEN /\ exec' = IF HasOutgoing(au.transitions, cur) THEN exec
                             ELSE [exec EXCEPT !.currentState = "FINISHED"]
                  /\ step' = info
             ELSE LET to == au.transitions[r.sel].to IN
                  /\ exec' = IF hookFail = "none" THEN [exec EXCEPT !.current = to]
                             ELSE exec
                  /\ step' = [info EXCEPT !.sel = r.sel, !.failed = (hookFail # "none"),
                                          !.fired = HooksFired(cur, r.sel, to, hookFail)]
    /\ UNCHANGED <<au, varsVar, varsLoad, varsCli>>

(* RUNNING -> STOPPED on an external request *)
ExecStop ==
    /\ exec.currentState = "RUNNING"
    /\ exec' = [exec EXCEPT !.currentState = "STOPPED"]
    /\ step' = [NoStep EXCEPT !.kind = "stop", !.before = exec.current]
    /\ UNCHANGED <<au, varsVar, varsLoad, varsCli>>

NextExec == ExecStart \/ ExecStep \/ ExecStop
SpecExec == InitExec /\ [][NextExec]_vars

(* C10: a step from current = s in which no evaluation fails takes the     *)
(* first transition in document order that leaves s and whose guard is     *)
(* true, fires s.on_exit, the transition's triggered and the target's      *)
(* on_enter in that order and makes the target current; with no such       *)
(* transition current stays s and no hook fires.                           *)
C10_FirstMatchStep ==
    (step.kind = "step" /\ ~step.failed) =>
        LET s == step.before
            trs == au.transitions
            cands == {k \in 1 .. Len(trs) : trs[k].from = s /\ step.guards[k] = "true"}
        IN  IF cands # {}
            THEN LET t == CHOOSE k \in cands : \A j \in cands : k <= j IN
                 /\ step.fired = <<Hook("on_exit", s), Hook("triggered", Ptr(0, t)),
                                   Hook("on_enter", trs[t].to)>>
                 /\ exec.current = trs[t].to
            ELSE /\ exec.current = s
                 /\ step.fired = << >>

C10_Witness ==
    /\ step.kind = "step" /\ ~step.failed /\ step.sel = 1
    /\ Len(au.transitions) = 2
    /\ au.transitions[1].from = step.before /\ au.transitions[2].from = step.before
    /\ au.transitions[1].to # au.transitions[2].to
    /\ step.guards = <<"true", "true">>
    /\ exec.current = au.transitions[1].to /\ exec.current # step.before
====
